---- MODULE Spec2Model ----
(***************************************************************************)
(* Model of steviebps/chambr: toggle deserialization and version           *)
(* resolution (src/pkg/override.go), the offline build's inheritance walk  *)
(* (src/cmd/build.go) and the HTTP handler over the storage contract       *)
(* (src/http/handler.go).                                                  *)
(*                                                                         *)
(* Strings are modelled as tuples of one-character strings, so that        *)
(* parsing, prefix trimming and concatenation are computed, not assumed.   *)
(***************************************************************************)
EXTENDS Integers, Sequences, FiniteSets, TLC

(***************************************************************************)
(* Bounds of the model.                                                    *)
(***************************************************************************)
\* longest override list of a toggle document
MaxOverrides == 3

(***************************************************************************)
(* State.  The three parts of the program share no state; each has its     *)
(* own specification, under which the other parts stay idle.               *)
(***************************************************************************)
\* a toggle document, the outcome of deserializing it and the last resolution
VARIABLES doc, tpc, result, query, matched, got

\* the chamber tree as loaded (parentOf, own, buildable, app), each chamber's
\* current Toggles, compile's call stack and the artifacts written
VARIABLES parentOf, own, buildable, app, toggles, stack, artifact, cpc

\* the storage backend's entries, the last request with its response and the
\* storage calls it made, and two history variables: per URL path the names
\* of the chambers POSTed there with 201 since the last DELETE of the path
\* (postedNames), and the name of the latest of them (lastPosted)
VARIABLES store, last, postedNames, lastPosted

tvars == <<doc, tpc, result, query, matched, got>>

cvars == <<parentOf, own, buildable, app, toggles, stack, artifact, cpc>>

hvars == <<store, last, postedNames, lastPosted>>

vars == <<tvars, cvars, hvars>>

(***************************************************************************)
(* Version strings.                                                        *)
(***************************************************************************)
EmptyStr == << >>
V100 == <<"v", "1", ".", "0", ".", "0">>
V200 == <<"v", "2", ".", "0", ".", "0">>
V300 == <<"v", "3", ".", "0", ".", "0">>
\* shorthand accepted by semver.Compare (vMAJOR), equal to v2.0.0 in order
VShort2 == <<"v", "2">>
\* no leading "v": not a semantic version for semver.Compare
NoPrefix200 == <<"2", ".", "0", ".", "0">>

Digits == <<"0", "1", "2", "3", "4", "5", "6", "7", "8", "9">>

IsDigit(c) == \E d \in 1..10 : Digits[d] = c

DigitVal(c) == (CHOOSE d \in 1..10 : Digits[d] = c) - 1

\* end (exclusive) of the run of digits of s starting at position i
RECURSIVE DigitsEnd(_, _)
DigitsEnd(s, i) ==
    IF i <= Len(s) /\ IsDigit(s[i]) THEN DigitsEnd(s, i + 1) ELSE i

RECURSIVE DecimalValue(_, _, _, _)
DecimalValue(s, i, j, acc) ==
    IF i >= j THEN acc ELSE DecimalValue(s, i + 1, j, acc * 10 + DigitVal(s[i]))

\* semver.parseInt: a non-empty run of digits without a leading zero
\* (unless the number is "0"); [ok, val, next]
ParseInt(s, i) ==
    LET j == DigitsEnd(s, i) IN
    IF j = i THEN [ok |-> FALSE, val |-> 0, next |-> i]
    ELSE IF s[i] = "0" /\ j # i + 1 THEN [ok |-> FALSE, val |-> 0, next |-> i]
    ELSE [ok |-> TRUE, val |-> DecimalValue(s, i, j, 0), next |-> j]

BadParse == [ok |-> FALSE, major |-> 0, minor |-> 0, patch |-> 0, full |-> FALSE]

\* semver.parse: vMAJOR[.MINOR[.PATCH]]; the input alphabet has no "-" or "+",
\* so a prerelease or build suffix never occurs and any other rest is invalid.
\* full: all three components are written out.
SemverParse(s) ==
    IF Len(s) = 0 \/ s[1] # "v" THEN BadParse
    ELSE LET ma == ParseInt(s, 2) IN
    IF ~ma.ok THEN BadParse
    ELSE IF ma.next > Len(s)
         THEN [ok |-> TRUE, major |-> ma.val, minor |-> 0, patch |-> 0, full |-> FALSE]
    ELSE IF s[ma.next] # "." THEN BadParse
    ELSE LET mi == ParseInt(s, ma.next + 1) IN
    IF ~mi.ok THEN BadParse
    ELSE IF mi.next > Len(s)
         THEN [ok |-> TRUE, major |-> ma.val, minor |-> mi.val, patch |-> 0, full |-> FALSE]
    ELSE IF s[mi.next] # "." THEN BadParse
    ELSE LET pa == ParseInt(s, mi.next + 1) IN
    IF ~pa.ok THEN BadParse
    ELSE IF pa.next > Len(s)
         THEN [ok |-> TRUE, major |-> ma.val, minor |-> mi.val, patch |-> pa.val, full |-> TRUE]
    ELSE BadParse

\* every version string of the model, parsed once
VersionStrings == {EmptyStr, V100, V200, V300, VShort2, NoPrefix200}

ParsedVersion == [s \in VersionStrings |-> SemverParse(s)]

CompareInt(x, y) == IF x = y THEN 0 ELSE IF x < y THEN -1 ELSE 1

\* semver.Compare: an invalid version is less than every valid one, and all
\* invalid versions are equal
SemverCompare(v, w) ==
    LET pv == ParsedVersion[v]
        pw == ParsedVersion[w]
    IN  IF ~pv.ok /\ ~pw.ok THEN 0
        ELSE IF ~pv.ok THEN -1
        ELSE IF ~pw.ok THEN 1
        ELSE IF CompareInt(pv.major, pw.major) # 0 THEN CompareInt(pv.major, pw.major)
        ELSE IF CompareInt(pv.minor, pw.minor) # 0 THEN CompareInt(pv.minor, pw.minor)
        ELSE CompareInt(pv.patch, pw.patch)

\* NewVersion: fails on a string that is not vMAJOR.MINOR.PATCH; the empty
\* endpoint of a one-sided range is let through
NewVersionFails(s) == s # EmptyStr /\ ~ParsedVersion[s].full

(***************************************************************************)
(* JSON values as Go decodes them into interface{}: goType is what         *)
(* reflect.TypeOf(value) is ("nil" for a null or absent value, for which   *)
(* reflect.TypeOf returns the nil Type).                                   *)
(***************************************************************************)
JBool(b) == [goType |-> "bool", val |-> IF b THEN 1 ELSE 0]
JString == [goType |-> "string", val |-> 0]
JNumber(n) == [goType |-> "float64", val |-> n]
JNull == [goType |-> "nil", val |-> 0]
JObject == [goType |-> "map[string]interface {}", val |-> 0]

ToggleTypes == {"boolean", "string", "number", "custom"}

\* reflect.TypeOf(nil).String() dereferences a nil Type
IsValidValuePanics(value) == value.goType = "nil"

IsValidValue(type, value) ==
    CASE value.goType = "bool" -> type = "boolean"
      [] value.goType = "string" -> type = "string"
      [] value.goType = "float64" -> type = "number"
      [] OTHER -> FALSE

\* Override.UnmarshalJSON: "ok" when the override is accepted
OverrideUnmarshal(o) ==
    IF o.min = EmptyStr /\ o.max = EmptyStr THEN "InvalidRange"
    ELSE IF NewVersionFails(o.min) THEN "InvalidVersion"
    ELSE IF NewVersionFails(o.max) THEN "InvalidVersion"
    ELSE "ok"

\* json.Unmarshal(b, &alias): the overrides array is decoded in order and the
\* first failing Override.UnmarshalJSON aborts
RECURSIVE DecodeOverrides(_, _)
DecodeOverrides(ovs, i) ==
    IF i > Len(ovs) THEN "ok"
    ELSE IF OverrideUnmarshal(ovs[i]) # "ok" THEN OverrideUnmarshal(ovs[i])
    ELSE DecodeOverrides(ovs, i + 1)

\* the overlap test between the previous and the current override
OverlapsPrevious(previous, override) ==
    SemverCompare(previous.max, override.min) = 1

\* the loop of Toggle.UnmarshalJSON; prev = 0 stands for previous == nil
RECURSIVE ValidateOverrides(_, _, _, _)
ValidateOverrides(type, ovs, i, prev) ==
    IF i > Len(ovs) THEN "ok"
    ELSE IF prev # 0 /\ OverlapsPrevious(ovs[prev], ovs[i]) THEN "OverlappingOverride"
    ELSE IF IsValidValuePanics(ovs[i].value) THEN "panic"
    ELSE IF ~IsValidValue(type, ovs[i].value) THEN "TypeMismatch"
    ELSE ValidateOverrides(type, ovs, i + 1, i)

ToggleUnmarshal(t) ==
    IF DecodeOverrides(t.overrides, 1) # "ok" THEN DecodeOverrides(t.overrides, 1)
    ELSE IF IsValidValuePanics(t.value) THEN "panic"
    ELSE IF ~IsValidValue(t.type, t.value) THEN "TypeMismatch"
    ELSE ValidateOverrides(t.type, t.overrides, 1, 0)

EncapsulatesStrictMin(override, version) ==
    /\ SemverCompare(override.min, version) < 0
    /\ SemverCompare(override.max, version) >= 0

\* the test of GetOverride's loop
Encapsulates(override, version) ==
    /\ SemverCompare(override.min, version) <= 0
    /\ SemverCompare(override.max, version) >= 0

\* GetOverride: index of the first override that encapsulates version, 0 for nil
RECURSIVE GetOverrideFrom(_, _, _)
GetOverrideFrom(ovs, version, i) ==
    IF i > Len(ovs) THEN 0
    ELSE IF Encapsulates(ovs[i], version) THEN i
    ELSE GetOverrideFrom(ovs, version, i + 1)

GetOverride(t, version) == GetOverrideFrom(t.overrides, version, 1)

GetValueAt(t, version) ==
    IF version # EmptyStr /\ GetOverride(t, version) # 0
    THEN t.overrides[GetOverride(t, version)].value
    ELSE t.value

(***************************************************************************)
(* Toggle documents fed to the deserializer.                               *)
(***************************************************************************)
SeqsUpTo(S, n) == UNION {[1..k -> S] : k \in 0..n}

\* endpoints of the range documents
RangeVersions == {EmptyStr, V100, V200, V300}

\* number toggles whose values all match the type; the i-th override carries
\* the value i and the default is 0, so a resolved value names its origin
RangeDocs ==
    {[type |-> "number", value |-> JNumber(0),
      overrides |-> [i \in DOMAIN r |->
                        [min |-> r[i][1], max |-> r[i][2], value |-> JNumber(i)]]] :
        r \in SeqsUpTo(RangeVersions \X RangeVersions, MaxOverrides)}

JSONValues == {JBool(TRUE), JString, JNumber(1), JNull, JObject}

\* two ranges that overlap when repeated, and one with an unparsable endpoint
TypeRanges == {<<V100, V200>>, <<V200, V300>>, <<NoPrefix200, V300>>}

\* every declared type against every kind of value, default and overrides
TypeDocs ==
    {[type |-> ty, value |-> v,
      overrides |-> [i \in DOMAIN r |->
                        [min |-> r[i][1][1], max |-> r[i][1][2], value |-> r[i][2]]]] :
        ty \in ToggleTypes, v \in JSONValues,
        r \in SeqsUpTo(TypeRanges \X JSONValues, MaxOverrides - 1)}

\* versions asked of an accepted toggle
QueryVersions == VersionStrings

NoValue == [goType |-> "none", val |-> 0]

ToggleStart ==
    /\ doc \in RangeDocs \cup TypeDocs
    /\ tpc = "raw"
    /\ result = "none"
    /\ query = EmptyStr
    /\ matched = 0
    /\ got = NoValue

\* json.Unmarshal of the toggle document
UnmarshalJSON ==
    /\ tpc = "raw"
    /\ result' = ToggleUnmarshal(doc)
    /\ tpc' = "decoded"
    /\ UNCHANGED <<doc, query, matched, got>>
    /\ UNCHANGED <<cvars, hvars>>

\* a consumer resolves an accepted toggle at a version
Resolve ==
    /\ tpc \in {"decoded", "resolved"}
    /\ result = "ok"
    /\ \E v \in QueryVersions :
        /\ query' = v
        /\ matched' = GetOverride(doc, v)
        /\ got' = GetValueAt(doc, v)
    /\ tpc' = "resolved"
    /\ UNCHANGED <<doc, result>>
    /\ UNCHANGED <<cvars, hvars>>

ToggleIdle ==
    /\ doc = [type |-> "boolean", value |-> JBool(TRUE), overrides |-> << >>]
    /\ tpc = "idle"
    /\ result = "none"
    /\ query = EmptyStr
    /\ matched = 0
    /\ got = NoValue

(***************************************************************************)
(* Properties of toggle deserialization and resolution.                    *)
(***************************************************************************)
\* semantic-version order, stated on the parsed components: a string that is
\* no semantic version sorts below every version
SemverLeq(a, b) ==
    LET pa == ParsedVersion[a]
        pb == ParsedVersion[b]
    IN  \/ ~pa.ok
        \/ /\ pb.ok
           /\ \/ pa.major < pb.major
              \/ pa.major = pb.major /\ pa.minor < pb.minor
              \/ pa.major = pb.major /\ pa.minor = pb.minor /\ pa.patch <= pb.patch

\* the inclusive range [min, max] of an override contains v
RangeContains(o, v) == SemverLeq(o.min, v) /\ SemverLeq(v, o.max)

Containing(t, v) == {i \in DOMAIN t.overrides : RangeContains(t.overrides[i], v)}

\* the declared type and the runtime type of a value agree
TypeMatches(type, value) ==
    \/ type = "boolean" /\ value.goType = "bool"
    \/ type = "string" /\ value.goType = "string"
    \/ type = "number" /\ value.goType = "float64"

AllTypesMatch(t) ==
    /\ TypeMatches(t.type, t.value)
    /\ \A i \in DOMAIN t.overrides : TypeMatches(t.type, t.overrides[i].value)

\* every override has at least one endpoint and its endpoints parse
WellFormedOverrides(t) ==
    \A i \in DOMAIN t.overrides :
        LET o == t.overrides[i] IN
        /\ ~(o.min = EmptyStr /\ o.max = EmptyStr)
        /\ o.min = EmptyStr \/ ParsedVersion[o.min].full
        /\ o.max = EmptyStr \/ ParsedVersion[o.max].full

C2_FailsIffAnyPairOverlaps ==
    (tpc = "decoded" /\ AllTypesMatch(doc) /\ WellFormedOverrides(doc)) =>
        (result # "ok" <=>
            \E i, j \in DOMAIN doc.overrides :
                /\ i < j
                /\ ~SemverLeq(doc.overrides[i].max, doc.overrides[j].min))

\* C3: for an accepted toggle at most one override contains any version, and
\* consecutive overrides satisfy prev.max < next.min strictly.
C3_AtMostOneMatch ==
    (tpc = "decoded" /\ result = "ok") =>
        /\ \A v \in VersionStrings \ {EmptyStr} : Cardinality(Containing(doc, v)) <= 1
        /\ \A i \in DOMAIN doc.overrides :
              i > 1 => ~SemverLeq(doc.overrides[i].min, doc.overrides[i - 1].max)

\* C4: an override with exactly one empty endpoint is unbounded in that
\* direction: it matches every valid v <= max when min is empty and every
\* valid v >= min when max is empty, so resolution finds it or an earlier
\* override.
C4_OneSidedUnbounded ==
    (tpc = "resolved" /\ ParsedVersion[query].ok) =>
        \A i \in DOMAIN doc.overrides :
            LET o == doc.overrides[i] IN
            (\/ o.min = EmptyStr /\ o.max # EmptyStr /\ SemverLeq(query, o.max)
             \/ o.max = EmptyStr /\ o.min # EmptyStr /\ SemverLeq(o.min, query))
            => (matched # 0 /\ matched <= i)

\* C9: a toggle whose default value or some override value does not match the
\* declared type ends deserialization in a returned TypeMismatch error, never
\* accepted and never crashing (taken where no other validation error can
\* come first: decodable, pairwise ordered overrides).
C9_MismatchIsReturnedError ==
    (/\ tpc = "decoded"
     /\ ~AllTypesMatch(doc)
     /\ WellFormedOverrides(doc)
     /\ \A i, j \in DOMAIN doc.overrides :
            i < j => SemverLeq(doc.overrides[i].max, doc.overrides[j].min))
    => result = "TypeMismatch"

(***************************************************************************)
(* The offline build: compile walks the chamber tree depth-first, writes   *)
(* the artifact of a buildable/app node and merges each child's toggles    *)
(* with its parent's before descending.                                    *)
(***************************************************************************)
\* chambers of the tree; chamber 1 is the root (globalChamber)
NumChambers == 3

Chambers == 1..NumChambers

ToggleNames == {"k1", "k2"}

\* trees: the parent of every chamber but the root is an earlier chamber, and
\* the children of a chamber are visited in stored (ascending) order
ParentMaps == {p \in [Chambers -> 0..NumChambers] :
                  /\ p[1] = 0
                  /\ \A n \in Chambers \ {1} : p[n] \in 1..(n - 1)}

\* a toggle mapping: for each name the chamber whose definition it holds, 0
\* when the name is not in the mapping
NoToggles == [k \in ToggleNames |-> 0]

NoArtifact == [k \in ToggleNames |-> -1]

RECURSIVE SetToSeq(_)
SetToSeq(S) ==
    IF S = {} THEN << >>
    ELSE LET m == CHOOSE x \in S : \A y \in S : x <= y
         IN  <<m>> \o SetToSeq(S \ {m})

\* parent.Children, in stored order
Children(p) == SetToSeq({n \in Chambers : parentOf[n] = p})

\* Chamber.InheritWith: every entry of the parent's mapping, overwritten or
\* extended by the chamber's own entries
InheritWith(c, parentToggles) ==
    [k \in ToggleNames |-> IF toggles[c][k] # 0 THEN toggles[c][k] ELSE parentToggles[k]]

StoreBuiltDropped(c, built) == toggles

\* parent.Children[i].Toggles = built
StoreBuilt(c, built) == [toggles EXCEPT ![c] = built]

\* the head of compile: the artifact <name>.json of a buildable or app chamber
\* holds the chamber's current toggles
WriteArtifact(n, tg) ==
    IF buildable[n] \/ app[n] THEN [artifact EXCEPT ![n] = tg[n]] ELSE artifact

CompileStart ==
    /\ parentOf \in ParentMaps
    /\ own \in [Chambers -> SUBSET ToggleNames]
    /\ buildable \in [Chambers -> BOOLEAN]
    /\ app \in [Chambers -> BOOLEAN]
    /\ \A n \in Chambers : ~(buildable[n] /\ app[n])
    /\ toggles = [n \in Chambers |-> [k \in ToggleNames |-> IF k \in own[n] THEN n ELSE 0]]
    /\ stack = << >>
    /\ artifact = [n \in Chambers |-> NoArtifact]
    /\ cpc = "loaded"

\* buildCmd.Run: compile(&globalChamber)
BuildRun ==
    /\ cpc = "loaded"
    /\ artifact' = WriteArtifact(1, toggles)
    /\ stack' = <<[node |-> 1, i |-> 1]>>
    /\ cpc' = "compiling"
    /\ UNCHANGED <<parentOf, own, buildable, app, toggles>>
    /\ UNCHANGED <<tvars, hvars>>

\* one turn of compile's loop: inherit into child i, then enter compile(child)
CompileChild ==
    /\ cpc = "compiling"
    /\ stack # << >>
    /\ LET top == stack[Len(stack)]
           kids == Children(top.node)
       IN  /\ top.i <= Len(kids)
           /\ LET c == kids[top.i]
                  built == InheritWith(c, toggles[top.node])
              IN  /\ toggles' = StoreBuilt(c, built)
                  /\ artifact' = WriteArtifact(c, toggles')
                  /\ stack' = [stack EXCEPT ![Len(stack)].i = top.i + 1]
                                  \o <<[node |-> c, i |-> 1]>>
    /\ UNCHANGED <<parentOf, own, buildable, app, cpc>>
    /\ UNCHANGED <<tvars, hvars>>

\* compile returns once the loop over the children is over; the outermost
\* return is followed by os.Exit(0)
CompileReturn ==
    /\ cpc = "compiling"
    /\ stack # << >>
    /\ LET top == stack[Len(stack)]
       IN  top.i > Len(Children(top.node))
    /\ stack' = SubSeq(stack, 1, Len(stack) - 1)
    /\ cpc' = IF Len(stack) = 1 THEN "done" ELSE "compiling"
    /\ UNCHANGED <<parentOf, own, buildable, app, toggles, artifact>>
    /\ UNCHANGED <<tvars, hvars>>

CompileIdle ==
    /\ parentOf = [n \in Chambers |-> n - 1]
    /\ own = [n \in Chambers |-> {}]
    /\ buildable = [n \in Chambers |-> FALSE]
    /\ app = [n \in Chambers |-> FALSE]
    /\ toggles = [n \in Chambers |-> NoToggles]
    /\ stack = << >>
    /\ artifact = [n \in Chambers |-> NoArtifact]
    /\ cpc = "idle"

\* the definition of k nearest to n on the path from n up to the root, from
\* the tree as it was loaded; 0 when neither n nor an ancestor defines k
RECURSIVE Nearest(_, _)
Nearest(n, k) ==
    IF n = 0 THEN 0
    ELSE IF k \in own[n] THEN n
    ELSE Nearest(parentOf[n], k)

Merged(n) == [k \in ToggleNames |-> Nearest(n, k)]

\* C5: after compile(root), n.toggles contains k iff n or an ancestor of n
\* defined k, and holds the definition of the nearest such chamber; the
\* artifact written for a buildable/app chamber is exactly this merged set
\* (none is written for another chamber), and the root keeps its own set.
C5_CompileInherits ==
    /\ cpc = "done" =>
          /\ \A n \in Chambers : toggles[n] = Merged(n)
          /\ \A n \in Chambers :
                artifact[n] = IF buildable[n] \/ app[n] THEN Merged(n) ELSE NoArtifact
          /\ toggles[1] = [k \in ToggleNames |-> IF k \in own[1] THEN 1 ELSE 0]
    /\ \A n \in Chambers : artifact[n] # NoArtifact => artifact[n] = Merged(n)

\* C5 witness: a grandchild that is built took one toggle from its
\* grandparent and kept its own definition of another that its parent and
\* the root define too
C5_Witness ==
    /\ cpc = "done"
    /\ \E n \in Chambers :
          /\ parentOf[n] # 0 /\ parentOf[parentOf[n]] # 0
          /\ app[n]
          /\ own[n] = {"k1"} /\ "k1" \in own[parentOf[n]] /\ own[1] = ToggleNames
          /\ "k2" \notin own[parentOf[n]]
          /\ artifact[n] = [k \in ToggleNames |-> IF k = "k1" THEN n ELSE 1]

(***************************************************************************)
(* The HTTP handler mounted at /v1/ over the storage contract.             *)
(***************************************************************************)
Slash == <<"/">>

\* the prefix the handler trims from r.URL.Path
V1 == <<"/", "v", "1">>

HasPrefix(s, prefix) ==
    Len(prefix) <= Len(s) /\ SubSeq(s, 1, Len(prefix)) = prefix

\* strings.TrimPrefix
TrimPrefix(s, prefix) ==
    IF HasPrefix(s, prefix) THEN SubSeq(s, Len(prefix) + 1, Len(s)) ELSE s

HasSuffixSlash(s) == Len(s) > 0 /\ s[Len(s)] = "/"

\* utils.EnsureTrailingSlash
EnsureTrailingSlash(s) == IF HasSuffixSlash(s) THEN s ELSE s \o Slash

RequestPathMountStripped(url) == TrimPrefix(url, V1 \o Slash)

\* path := strings.TrimPrefix(r.URL.Path, "/v1")
RequestPath(url) == TrimPrefix(url, V1)

\* GET: if path == "/"
GetRejectsRoot(path) == path = Slash

PostDecodeContinues(err) == FALSE

\* POST: if err := utils.ReadInterfaceWith(tr, &c); err != nil { ...; return }
PostDecodeAborts(err) == err # ""

PostKeyWithoutName(path, name) == EnsureTrailingSlash(path)

\* POST: Key: utils.EnsureTrailingSlash(path) + c.Name
PostKey(path, name) == EnsureTrailingSlash(path) \o name

\* request paths the mux pattern /v1/ routes to the handler
UrlRoot == V1 \o Slash
UrlA == V1 \o <<"/", "a">>
UrlASlash == V1 \o <<"/", "a", "/">>
UrlAB == V1 \o <<"/", "a", "/", "b">>

UrlPaths == {UrlRoot, UrlA, UrlASlash, UrlAB}

\* chamber names; a name is any JSON string and may hold a slash
NameB == <<"b">>
NameAB == <<"a", "/", "b">>

ChamberNames == {NameB, NameAB}

\* request bodies and stored values, as bytes: a Chamber document with its
\* name, bytes that are no Chamber document, or nothing at all
ChamberBytes(name) == [kind |-> "chamber", name |-> name]
MalformedBytes == [kind |-> "malformed", name |-> EmptyStr]
EmptyBytes == [kind |-> "empty", name |-> EmptyStr]
Absent == [kind |-> "absent", name |-> EmptyStr]

Bodies == {ChamberBytes(n) : n \in ChamberNames} \cup {MalformedBytes, EmptyBytes}

\* utils.ReadInterfaceWith(tr, &c): strict decoding of the body as a Chamber;
\* io.EOF on an empty body
ReadInterfaceWith(body) ==
    CASE body.kind = "chamber" -> [err |-> "", chamber |-> [name |-> body.name]]
      [] body.kind = "empty" -> [err |-> "EOF", chamber |-> [name |-> EmptyStr]]
      [] OTHER -> [err |-> "decode", chamber |-> [name |-> EmptyStr]]

\* json.Unmarshal(entry.Value, &c)
UnmarshalChamber(bytes) ==
    IF bytes.kind = "chamber"
    THEN [err |-> "", chamber |-> [name |-> bytes.name]]
    ELSE [err |-> "decode", chamber |-> [name |-> EmptyStr]]

\* storage errors as the handler can tell them apart: asNotFound is
\* errors.As(err, *storage.NotFoundError), isNotExist is
\* errors.Is(err, os.ErrNotExist), msg is err.Error()
NoErr == [asNotFound |-> FALSE, isNotExist |-> FALSE, msg |-> ""]
NotFoundError == [asNotFound |-> TRUE, isNotExist |-> FALSE, msg |-> "key not found"]
ErrNotExist == [asNotFound |-> FALSE, isNotExist |-> TRUE, msg |-> "file does not exist"]
StorageFailure == [asNotFound |-> FALSE, isNotExist |-> FALSE, msg |-> "storage failure"]

\* every key a request of the model can name
KeySpace ==
    {RequestPath(u) : u \in UrlPaths}
        \cup {PostKey(RequestPath(u), n) : u \in UrlPaths, n \in ChamberNames}
        \cup {PostKey(RequestPathMountStripped(u), n) : u \in UrlPaths, n \in ChamberNames}
        \cup {PostKeyWithoutName(RequestPath(u), n) : u \in UrlPaths, n \in ChamberNames}
        \cup {PostKey(RequestPath(u), EmptyStr) : u \in UrlPaths}

\* Storage.Get
StorageGet(path, fails) ==
    IF fails THEN [err |-> StorageFailure, value |-> Absent]
    ELSE IF store[path] = Absent THEN [err |-> NotFoundError, value |-> Absent]
    ELSE [err |-> NoErr, value |-> store[path]]

\* Storage.Put: overwrites wholesale
StoragePut(key, value, fails) ==
    IF fails THEN [err |-> StorageFailure, store |-> store]
    ELSE [err |-> NoErr, store |-> [store EXCEPT ![key] = value]]

\* Storage.Delete
StorageDelete(path, fails) ==
    IF fails THEN [err |-> StorageFailure, store |-> store]
    ELSE IF store[path] = Absent THEN [err |-> NotFoundError, store |-> store]
    ELSE [err |-> NoErr, store |-> [store EXCEPT ![path] = Absent]]

\* the first path segment of s
RECURSIVE FirstSegment(_)
FirstSegment(s) ==
    IF s = << >> \/ s[1] = "/" THEN << >> ELSE <<s[1]>> \o FirstSegment(Tail(s))

\* Storage.List: the immediate children of the prefix (their order is left
\* out); notFound is the error a backend answers for a prefix without entries
StorageList(prefix, fails, notFound) ==
    LET dir == EnsureTrailingSlash(prefix)
        names == {FirstSegment(TrimPrefix(k, dir)) :
                     k \in {x \in KeySpace : store[x] # Absent /\ HasPrefix(x, dir)
                                                /\ Len(x) > Len(dir)}}
    IN  IF fails THEN [err |-> StorageFailure, names |-> {}]
        ELSE IF names = {} THEN [err |-> notFound, names |-> {}]
        ELSE [err |-> NoErr, names |-> names]

NoData == [kind |-> "none"]

\* handleResponse: the envelope {data?, error?} with its status code
Response(status, data, error) == [status |-> status, data |-> data, error |-> error]

NoRequest ==
    [method |-> "none", url |-> UrlRoot, body |-> EmptyBytes, fails |-> FALSE,
     err |-> NoErr, ops |-> << >>, resp |-> Response(0, NoData, "")]

Request(method, url, body, fails, err, ops, resp) ==
    [method |-> method, url |-> url, body |-> body, fails |-> fails,
     err |-> err, ops |-> ops, resp |-> resp]

Call(op, key) == [op |-> op, key |-> key]

HttpStart ==
    /\ store \in {[k \in KeySpace |-> Absent],
                  [k \in KeySpace |-> IF k = RequestPath(UrlAB) THEN MalformedBytes ELSE Absent]}
    /\ last = NoRequest
    /\ postedNames = [u \in UrlPaths |-> {}]
    /\ lastPosted = [u \in UrlPaths |-> EmptyStr]

\* case http.MethodGet
HandleGet ==
    \E url \in UrlPaths, fails \in BOOLEAN :
        LET path == RequestPath(url) IN
        /\ IF GetRejectsRoot(path)
           THEN last' = Request("GET", url, EmptyBytes, fails, NoErr, << >>,
                                Response(404, NoData, "path cannot be \"/\""))
           ELSE LET r == StorageGet(path, fails)
                    c == UnmarshalChamber(r.value)
                    resp == IF r.err # NoErr
                            THEN Response(404, NoData,
                                          IF r.err.asNotFound THEN "Not Found" ELSE r.err.msg)
                            ELSE IF c.err # ""
                            THEN Response(500, NoData, "Internal Server Error")
                            ELSE Response(200, [kind |-> "chamber", chamber |-> c.chamber], "")
                IN  last' = Request("GET", url, EmptyBytes, fails, r.err,
                                    <<Call("get", path)>>, resp)
        /\ UNCHANGED <<store, postedNames, lastPosted>>
        /\ UNCHANGED <<tvars, cvars>>

\* case http.MethodPost
HandlePost ==
    \E url \in UrlPaths, body \in Bodies, fails \in BOOLEAN :
        LET path == RequestPath(url)
            d == ReadInterfaceWith(body)
        IN
        /\ IF PostDecodeAborts(d.err)
           THEN /\ last' = Request("POST", url, body, fails, NoErr, << >>,
                                   Response(400, NoData,
                                            IF d.err = "EOF"
                                            THEN "Request body must not be empty"
                                            ELSE "Bad Request"))
                /\ UNCHANGED <<store, postedNames, lastPosted>>
           ELSE LET key == PostKey(path, d.chamber.name)
                    r == StoragePut(key, body, fails)
                    target == EnsureTrailingSlash(url) \o d.chamber.name
                IN  /\ store' = r.store
                    /\ last' = Request("POST", url, body, fails, r.err,
                                       <<Call("put", key)>>,
                                       IF r.err # NoErr
                                       THEN Response(500, NoData, r.err.msg)
                                       ELSE Response(201, NoData, ""))
                    /\ postedNames' =
                          IF r.err = NoErr /\ HasSuffixSlash(url) /\ target \in UrlPaths
                          THEN [postedNames EXCEPT ![target] = @ \cup {d.chamber.name}]
                          ELSE postedNames
                    /\ lastPosted' =
                          IF r.err = NoErr /\ target \in UrlPaths
                          THEN [lastPosted EXCEPT ![target] = d.chamber.name]
                          ELSE lastPosted
        /\ UNCHANGED <<tvars, cvars>>

\* case http.MethodDelete
HandleDelete ==
    \E url \in UrlPaths, fails \in BOOLEAN :
        LET path == RequestPath(url)
            r == StorageDelete(path, fails)
        IN
        /\ store' = r.store
        /\ last' = Request("DELETE", url, EmptyBytes, fails, r.err,
                           <<Call("delete", path)>>,
                           IF r.err = NoErr THEN Response(200, NoData, "")
                           ELSE IF r.err.asNotFound THEN Response(404, NoData, "Not Found")
                           ELSE Response(500, NoData, r.err.msg))
        /\ postedNames' = [postedNames EXCEPT ![url] = {}]
        /\ lastPosted' = [lastPosted EXCEPT ![url] = EmptyStr]
        /\ UNCHANGED <<tvars, cvars>>

\* case "LIST"
HandleList ==
    \E url \in UrlPaths, fails \in BOOLEAN, notFound \in {NotFoundError, ErrNotExist} :
        LET path == RequestPath(url)
            r == StorageList(path, fails, notFound)
        IN
        /\ last' = Request("LIST", url, EmptyBytes, fails, r.err,
                           <<Call("list", path)>>,
                           IF r.err = NoErr
                           THEN Response(200, [kind |-> "names", names |-> r.names], "")
                           ELSE IF r.err.isNotExist THEN Response(404, NoData, "Not Found")
                           ELSE Response(500, NoData, r.err.msg))
        /\ UNCHANGED <<store, postedNames, lastPosted>>
        /\ UNCHANGED <<tvars, cvars>>

\* default: any other method
HandleOther ==
    \E url \in UrlPaths, method \in {"PUT", "PATCH"} :
        /\ last' = Request(method, url, EmptyBytes, FALSE, NoErr, << >>,
                           Response(405, NoData, "Method Not Allowed"))
        /\ UNCHANGED <<store, postedNames, lastPosted>>
        /\ UNCHANGED <<tvars, cvars>>

HttpIdle ==
    /\ store = [k \in KeySpace |-> Absent]
    /\ last = NoRequest
    /\ postedNames = [u \in UrlPaths |-> {}]
    /\ lastPosted = [u \in UrlPaths |-> EmptyStr]

(***************************************************************************)
(* Specifications.                                                         *)
(***************************************************************************)
Init == HttpStart /\ ToggleIdle /\ CompileIdle

Next == HandleGet \/ HandlePost \/ HandleDelete \/ HandleList \/ HandleOther

\* the HTTP handler serving any sequence of requests
Spec == Init /\ [][Next]_vars

ToggleInit == ToggleStart /\ CompileIdle /\ HttpIdle

ToggleNext == UnmarshalJSON \/ Resolve

\* deserializing a toggle document and resolving it at versions
SpecToggle == ToggleInit /\ [][ToggleNext]_vars

CompileInit == CompileStart /\ ToggleIdle /\ HttpIdle

CompileNext == BuildRun \/ CompileChild \/ CompileReturn

\* the build command on a loaded chamber tree
SpecCompile == CompileInit /\ [][CompileNext]_vars

(***************************************************************************)
(* Properties of the HTTP handler.                                         *)
(***************************************************************************)
PostOfChamber == last.method = "POST" /\ last.body.kind = "chamber"

\* C6 as claimed: a POST of a Chamber named N to /v1/<P> makes exactly one
\* put whose key is the sub-path <P> (without the mount prefix /v1/) ending
\* in a single slash, followed by N (acme/billing for /v1/acme/ and billing),
\* and answers 201 with an empty body when the put succeeds.
C6_KeyWithoutMountPrefix ==
    PostOfChamber =>
        /\ last.ops = <<Call("put",
                EnsureTrailingSlash(SubSeq(last.url, Len(V1) + 2, Len(last.url)))
                    \o last.body.name)>>
        /\ last.err = NoErr => last.resp = Response(201, NoData, "")

\* C6 amended: a POST of a Chamber named N makes exactly one put, whose key,
\* put after "/v1", spells the request path, with a slash appended unless it
\* ends in one, followed by N: the key keeps the leading slash (/a/b for
\* /v1/a/ and b).  When the put succeeds the response is 201 with no data and
\* no error.
C6_PostPutsOnce ==
    PostOfChamber =>
        /\ Len(last.ops) = 1
        /\ last.ops[1].op = "put"
        /\ V1 \o last.ops[1].key =
              (IF last.url[Len(last.url)] = "/" THEN last.url ELSE last.url \o <<"/">>)
                  \o last.body.name
        /\ (last.url = UrlASlash /\ last.body.name = NameB)
              => last.ops[1].key = <<"/", "a", "/", "b">>
        /\ last.err = NoErr =>
              /\ last.resp = Response(201, NoData, "")
              /\ store[last.ops[1].key] = last.body

\* C6 witness: POST of chamber b to /v1/a/ answered 201
C6_Witness ==
    /\ PostOfChamber
    /\ last.url = UrlASlash
    /\ last.body.name = NameB
    /\ last.resp.status = 201
    /\ last.ops = <<Call("put", <<"/", "a", "/", "b">>)>>

\* a GET whose storage call did not fail for a reason of the backend's own
AnsweredGet == last.method = "GET" /\ ~last.fails

\* C7 as claimed: after a POST of a Chamber named N to /v1/<P>/ returned 201,
\* a GET of /v1/<P>/N before any DELETE of that path returns 200 with
\* data.name = N.
C7_GetReturnsEveryPostedName ==
    AnsweredGet =>
        \A n \in postedNames[last.url] :
            last.resp = Response(200, [kind |-> "chamber", chamber |-> [name |-> n]], "")

\* C7 amended: after a POST of a Chamber to /v1/<P>/ returned 201, a GET of
\* /v1/<P>/N before any DELETE of that path, the storage get not failing,
\* returns 200 with data.name the name of the Chamber that the latest POST
\* answered 201 stored under that key: N, unless a later POST stored a
\* Chamber of another name under the same key (name <P>/N posted to /v1/).
C7_GetReturnsLatestPost ==
    (AnsweredGet /\ postedNames[last.url] # {}) =>
        /\ lastPosted[last.url] # EmptyStr
        /\ last.resp = Response(200, [kind |-> "chamber",
                                      chamber |-> [name |-> lastPosted[last.url]]], "")

\* C7 witness: GET /v1/a/b answers chamber b, POSTed to /v1/a/
C7_Witness ==
    /\ AnsweredGet
    /\ last.url = UrlAB
    /\ postedNames[UrlAB] = {NameB}
    /\ last.resp.status = 200
    /\ last.resp.data.chamber.name = NameB

\* C8: for GET, DELETE and LIST a storage call failing with the not-found
\* error is answered 404 with error "Not Found" and no data; for DELETE and
\* LIST any other storage error is answered 500 with the error's message.
C8_NotFoundIs404 ==
    (last.method \in {"GET", "DELETE", "LIST"} /\ last.err # NoErr) =>
        /\ (last.err.asNotFound \/ last.err.isNotExist)
              => last.resp = Response(404, NoData, "Not Found")
        /\ (last.method # "GET" /\ ~last.err.asNotFound /\ ~last.err.isNotExist)
              => last.resp = Response(500, NoData, last.err.msg)

Mutating(ops) == \E i \in DOMAIN ops : ops[i].op \in {"put", "delete"}

\* C10: a GET, a LIST, a request of another method (answered 405), a GET of
\* the root path (answered 404 without a storage call) and a POST whose body
\* does not decode (answered 400) call neither put nor delete and leave every
\* stored entry as it was; a request that changes an entry is a POST or a
\* DELETE.
C10_ReadOnlyRequests ==
    [][/\ (\/ last'.method \notin {"POST", "DELETE"}
           \/ last'.method = "POST" /\ last'.body.kind # "chamber")
          => (store' = store /\ ~Mutating(last'.ops))
       /\ last'.method \in {"PUT", "PATCH"} => (last'.resp.status = 405 /\ last'.ops = << >>)
       /\ (last'.method = "GET" /\ last'.url = UrlRoot)
          => (last'.resp.status = 404 /\ last'.ops = << >>)
       /\ (last'.method = "POST" /\ last'.body.kind # "chamber")
          => (last'.resp.status = 400 /\ last'.ops = << >>)
       /\ store' # store => last'.method \in {"POST", "DELETE"}]_vars

\* C10 witness: a stored entry outlives a GET of the root path
C10_Witness ==
    /\ last.method = "GET"
    /\ last.url = UrlRoot
    /\ last.resp.status = 404
    /\ store[<<"/", "a", "/", "b">>] = ChamberBytes(NameB)

====
